---- MODULE Spec2Model ----
(***************************************************************************)
(* Model of logo_generator.py: a straight-line script that asks an         *)
(* external generator for a canvas, loads a font, measures a text block,   *)
(* centres it with floor division, draws it and saves the canvas.          *)
(* Every external call either returns or raises; an exception raised at    *)
(* module level ends the script.                                           *)
(***************************************************************************)
EXTENDS Integers, Sequences, FiniteSets, TLC

VARIABLES
    pc,           \* position of the script: the statement to run next
    config,       \* script-time constants: canvas size and manual position
    fonts,        \* environment: the font paths that resolve to a usable file
    writable,     \* environment: whether the output path can be written
    file0,        \* environment: the file at the output path before the run
    bg,           \* the canvas: width, height and the text painted on it
    draw,         \* TRUE once the drawing context is bound to bg
    font,         \* the loaded font handle
    bbox,         \* the measured bounding box <<left, top, right, bottom>>
    text_width,
    text_height,
    x,
    y,
    file,         \* the file at the output path
    writes,       \* number of times this run wrote the output path
    err,          \* "none", or the kind of the exception that ended the run
    steps,        \* the statements attempted so far, in order
    memo          \* at most one remembered earlier centring call

vars == <<pc, config, fonts, writable, file0, bg, draw, font, bbox,
          text_width, text_height, x, y, file, writes, err, steps, memo>>

----------------------------------------------------------------------------
(* Bounds *)

MaxDelta  == 2   \* measured text sizes range over canvas size -MaxDelta..+MaxDelta
MaxOffset == 1   \* left/top offsets of the measured bounding box
MaxCanvas == 3   \* small canvas sizes fed to the centring computation
MaxText   == 4   \* small text sizes fed to the centring computation
MaxPure   == 1   \* sizes used when the centring computation is re-invoked
MaxCalls  == 3   \* number of invocations when the computation is re-invoked

----------------------------------------------------------------------------
(* Script constants *)

font_path == "/Library/Fonts/Arial Bold.ttf"
font_size == 160
text      == "looSTAAR"
dpi       == 600

NoPosition == <<>>

LogoConfig == [width |-> 1080, height |-> 1080, manualPosition |-> NoPosition]

\* The banner script: a wide, short canvas and a hand-tuned position.
BannerPositions == {<<620, 70>>, <<0, 0>>, <<1700, 70>>, <<620, 300>>, <<-5, -5>>}

BannerConfigs ==
    [width : {1600, 1080}, height : {240, 1080}, manualPosition : BannerPositions]

----------------------------------------------------------------------------
(* Values *)

NoCanvas == [width |-> 0, height |-> 0, painted |-> <<>>]
NoFont   == [path |-> "", size |-> 0]
NoFile   == [exists |-> FALSE, width |-> 0, height |-> 0, dpi |-> 0]
OldFile  == [exists |-> TRUE, width |-> 1, height |-> 1, dpi |-> 72]

\* Sizes a text block can measure to on a canvas side of length n.
MeasuredSizes(n) == {n + d : d \in -MaxDelta..MaxDelta} \cup {0, 120, 800, n + 10}

\* Bounding boxes draw.textbbox can return for a canvas of the given size.
TextBoxes(w, h) ==
    {<<l, t, l + tw, t + th>> :
        l \in 0..MaxOffset, t \in 0..MaxOffset,
        tw \in MeasuredSizes(w), th \in MeasuredSizes(h)}

----------------------------------------------------------------------------
(* Pure helpers *)

\* Variants of the centring arithmetic that a slip would produce.
CenterCoordTrunc(canvas_size, text_size) ==      \* division rounding toward zero
    IF canvas_size - text_size >= 0
      THEN (canvas_size - text_size) \div 2
      ELSE -((text_size - canvas_size) \div 2)

CenterCoordSwapped(canvas_size, text_size) ==    \* operands exchanged
    (text_size - canvas_size) \div 2

CenterCoordCeil(canvas_size, text_size) ==       \* remainder to the top/left
    (canvas_size - text_size + 1) \div 2

CenterCoordAccum(canvas_size, text_size) ==      \* += instead of =
    x + (canvas_size - text_size) \div 2

\* Lines 24-25: (canvas_size - text_size) // 2, Python floor division.
\* TLA+ \div rounds toward minus infinity, as // does.
CenterCoord(canvas_size, text_size) == (canvas_size - text_size) \div 2

\* An uncaught exception at module level ends the script.
Raise(kind) ==
    /\ pc' = "failed"
    /\ err' = kind

Attempt(name) == steps' = Append(steps, name)

----------------------------------------------------------------------------
(* Initial states *)

Environment ==
    /\ fonts \in {{}, {font_path}}
    /\ writable \in BOOLEAN
    /\ file0 \in {NoFile, OldFile}

Start ==
    /\ pc = "generate"
    /\ bg = NoCanvas
    /\ draw = FALSE
    /\ font = NoFont
    /\ bbox = <<0, 0, 0, 0>>
    /\ text_width = 0
    /\ text_height = 0
    /\ x = 0
    /\ y = 0
    /\ file = file0
    /\ writes = 0
    /\ err = "none"
    /\ steps = <<>>
    /\ memo = <<>>

Init ==
    /\ config = LogoConfig
    /\ Environment
    /\ Start

----------------------------------------------------------------------------
(* The statements of the script, in order *)

\* Line 5: bg = generate_iridescent_background(width, height, enhance_vibrancy)
GenerateBackground ==
    /\ pc = "generate"
    /\ Attempt("generate")
    /\ \/ /\ bg' = [width |-> config.width, height |-> config.height,
                    painted |-> <<>>]
          /\ pc' = "draw_ctx"
          /\ err' = err
       \/ /\ Raise("GenerationFailure")
          /\ bg' = bg
    /\ UNCHANGED <<config, fonts, writable, file0, draw, font, bbox,
                   text_width, text_height, x, y, file, writes, memo>>

\* Line 8: draw = ImageDraw.Draw(bg); binds a context, paints nothing.
PrepareDraw ==
    /\ pc = "draw_ctx"
    /\ Attempt("draw_ctx")
    /\ draw' = TRUE
    /\ pc' = "load_font"
    /\ UNCHANGED <<config, fonts, writable, file0, bg, font, bbox,
                   text_width, text_height, x, y, file, writes, err, memo>>

\* Variant: a missing font is replaced by a default font and the run goes on.
LoadFontFallback ==
    /\ pc = "load_font"
    /\ Attempt("load_font")
    /\ font' = IF font_path \in fonts
                 THEN [path |-> font_path, size |-> font_size]
                 ELSE [path |-> "default", size |-> font_size]
    /\ pc' = "measure"
    /\ UNCHANGED <<config, fonts, writable, file0, bg, draw, bbox,
                   text_width, text_height, x, y, file, writes, err, memo>>

\* Lines 11-13: font = ImageFont.truetype(font_path, font_size)
LoadFont ==
    /\ pc = "load_font"
    /\ Attempt("load_font")
    /\ IF font_path \in fonts
         THEN /\ font' = [path |-> font_path, size |-> font_size]
              /\ pc' = "measure"
              /\ err' = err
         ELSE /\ Raise("FontNotFound")
              /\ font' = font
    /\ UNCHANGED <<config, fonts, writable, file0, bg, draw, bbox,
                   text_width, text_height, x, y, file, writes, memo>>

\* Lines 19-21: bbox = draw.textbbox((0, 0), text, font=font) and the two
\* differences.  The box depends on the font file, so it is any box of the set.
MeasureText ==
    /\ pc = "measure"
    /\ Attempt("measure")
    /\ \/ \E b \in TextBoxes(bg.width, bg.height) :
            /\ bbox' = b
            /\ text_width' = b[3] - b[1]
            /\ text_height' = b[4] - b[2]
            /\ pc' = "center"
            /\ err' = err
       \/ /\ Raise("MeasureFailure")
          /\ UNCHANGED <<bbox, text_width, text_height>>
    /\ UNCHANGED <<config, fonts, writable, file0, bg, draw, font,
                   x, y, file, writes, memo>>

\* Variant: a text block larger than the canvas is rejected.
CenterTextChecked ==
    /\ pc = "center"
    /\ Attempt("center")
    /\ x' = CenterCoord(bg.width, text_width)
    /\ y' = CenterCoord(bg.height, text_height)
    /\ IF text_width > bg.width \/ text_height > bg.height
         THEN Raise("TextOverflow")
         ELSE pc' = "draw_text" /\ err' = err
    /\ UNCHANGED <<config, fonts, writable, file0, bg, draw, font, bbox,
                   text_width, text_height, file, writes, memo>>

\* Lines 24-25: x and y by floor division; no check, no branch, no exception.
CenterText ==
    /\ pc = "center"
    /\ Attempt("center")
    /\ x' = CenterCoord(bg.width, text_width)
    /\ y' = CenterCoord(bg.height, text_height)
    /\ pc' = "draw_text"
    /\ UNCHANGED <<config, fonts, writable, file0, bg, draw, font, bbox,
                   text_width, text_height, file, writes, err, memo>>

\* Variant: the text is painted at the origin used for measuring.
DrawTextAtOrigin ==
    /\ pc = "draw_text"
    /\ Attempt("draw_text")
    /\ \/ /\ bg' = [bg EXCEPT !.painted =
                      Append(@, [xy |-> <<0, 0>>, text |-> text, fill |-> "white"])]
          /\ pc' = "save"
          /\ err' = err
       \/ /\ Raise("DrawFailure")
          /\ bg' = bg
    /\ UNCHANGED <<config, fonts, writable, file0, draw, font, bbox,
                   text_width, text_height, x, y, file, writes, memo>>

\* Variant: the text is painted twice.
DrawTextTwice ==
    /\ pc = "draw_text"
    /\ Attempt("draw_text")
    /\ \/ /\ bg' = [bg EXCEPT !.painted =
                      @ \o << [xy |-> <<x, y>>, text |-> text, fill |-> "white"],
                              [xy |-> <<x, y>>, text |-> text, fill |-> "white"] >>]
          /\ pc' = "save"
          /\ err' = err
       \/ /\ Raise("DrawFailure")
          /\ bg' = bg
    /\ UNCHANGED <<config, fonts, writable, file0, draw, font, bbox,
                   text_width, text_height, x, y, file, writes, memo>>

\* Variant: a failure while drawing is caught and the run goes on to save.
DrawTextSwallow ==
    /\ pc = "draw_text"
    /\ Attempt("draw_text")
    /\ \/ /\ bg' = [bg EXCEPT !.painted =
                      Append(@, [xy |-> <<x, y>>, text |-> text, fill |-> "white"])]
          /\ err' = err
       \/ /\ err' = "DrawFailure"
          /\ bg' = bg
    /\ pc' = "save"
    /\ UNCHANGED <<config, fonts, writable, file0, draw, font, bbox,
                   text_width, text_height, x, y, file, writes, memo>>

\* Line 28: draw.text((x, y), text, font=font, fill="white") paints on bg in
\* place; a position outside the canvas is clipped, not rejected.
DrawText ==
    /\ pc = "draw_text"
    /\ Attempt("draw_text")
    /\ \/ /\ bg' = [bg EXCEPT !.painted =
                      Append(@, [xy |-> <<x, y>>, text |-> text, fill |-> "white"])]
          /\ pc' = "save"
          /\ err' = err
       \/ /\ Raise("DrawFailure")
          /\ bg' = bg
    /\ UNCHANGED <<config, fonts, writable, file0, draw, font, bbox,
                   text_width, text_height, x, y, file, writes, memo>>

\* Variant: only the text block is written out.
SaveLogoCropped ==
    /\ pc = "save"
    /\ Attempt("save")
    /\ IF writable
         THEN /\ file' = [exists |-> TRUE, width |-> text_width,
                          height |-> text_height, dpi |-> dpi]
              /\ writes' = writes + 1
              /\ pc' = "done"
              /\ err' = err
         ELSE /\ Raise("IOError")
              /\ UNCHANGED <<file, writes>>
    /\ UNCHANGED <<config, fonts, writable, file0, bg, draw, font, bbox,
                   text_width, text_height, x, y, memo>>

\* Line 31: bg.save(path, dpi=(600, 600)) replaces the file at the path, or
\* raises when the path cannot be opened for writing.
SaveLogo ==
    /\ pc = "save"
    /\ Attempt("save")
    /\ IF writable
         THEN /\ file' = [exists |-> TRUE, width |-> bg.width,
                          height |-> bg.height, dpi |-> dpi]
              /\ writes' = writes + 1
              /\ pc' = "done"
              /\ err' = err
         ELSE /\ Raise("IOError")
              /\ UNCHANGED <<file, writes>>
    /\ UNCHANGED <<config, fonts, writable, file0, bg, draw, font, bbox,
                   text_width, text_height, x, y, memo>>

Next ==
    \/ GenerateBackground
    \/ PrepareDraw
    \/ LoadFont
    \/ MeasureText
    \/ CenterText
    \/ DrawText
    \/ SaveLogo

Spec == Init /\ [][Next]_vars

----------------------------------------------------------------------------
(* The centring computation on its own: lines 24-25 applied to inputs drawn *)
(* from bounded sets, the script standing just before line 24.             *)

CanvasSizes == 0..MaxCanvas \cup {1080, 1600}
TextSizes   == 0..MaxText \cup {120, 800, 1080, 1090}

BeforeCenter(canvas, texts) ==
    /\ pc = "center"
    /\ bg \in [width : canvas, height : canvas, painted : {<<>>}]
    /\ config = [width |-> bg.width, height |-> bg.height,
                 manualPosition |-> NoPosition]
    /\ text_width \in texts
    /\ text_height \in texts
    /\ bbox = <<0, 0, text_width, text_height>>
    /\ draw = TRUE
    /\ font = [path |-> font_path, size |-> font_size]
    /\ fonts = {font_path}
    /\ writable = TRUE
    /\ file0 = NoFile
    /\ file = file0
    /\ writes = 0
    /\ err = "none"
    /\ x = 0
    /\ y = 0
    /\ steps = <<"generate", "draw_ctx", "load_font", "measure">>
    /\ memo = <<>>

InitCenter == BeforeCenter(CanvasSizes, TextSizes)

NextCenter == CenterText

SpecCenter == InitCenter /\ [][NextCenter]_vars

----------------------------------------------------------------------------
(* The centring computation invoked repeatedly: after a call the caller may *)
(* remember its inputs and result, then calls again with any inputs.  x and *)
(* y keep the earlier result until the next call overwrites them.           *)

PureSizes == 0..MaxPure

Calls == Len(SelectSeq(steps, LAMBDA s : s = "center"))

ThisCall == [canvas_width |-> bg.width, canvas_height |-> bg.height,
             text_width |-> text_width, text_height |-> text_height,
             x |-> x, y |-> y]

Reinvoke ==
    /\ pc = "draw_text"
    /\ Calls < MaxCalls
    /\ memo' \in {memo, <<ThisCall>>}
    /\ \E cw \in PureSizes, ch \in PureSizes, tw \in PureSizes, th \in PureSizes :
          /\ bg' = [bg EXCEPT !.width = cw, !.height = ch]
          /\ text_width' = tw
          /\ text_height' = th
          /\ bbox' = <<0, 0, tw, th>>
    /\ pc' = "center"
    /\ UNCHANGED <<config, fonts, writable, file0, draw, font, x, y,
                   file, writes, err, steps>>

InitPure == BeforeCenter(PureSizes, PureSizes)

NextPure ==
    \/ CenterText
    \/ Reinvoke

SpecPure == InitPure /\ [][NextPure]_vars

----------------------------------------------------------------------------
(* The banner script: the same run with a manually supplied position in     *)
(* place of lines 24-25.                                                    *)

ManualPosition ==
    /\ pc = "center"
    /\ Attempt("position")
    /\ x' = config.manualPosition[1]
    /\ y' = config.manualPosition[2]
    /\ pc' = "draw_text"
    /\ UNCHANGED <<config, fonts, writable, file0, bg, draw, font, bbox,
                   text_width, text_height, file, writes, err, memo>>

InitBanner ==
    /\ config \in BannerConfigs
    /\ Environment
    /\ Start

NextBanner ==
    \/ GenerateBackground
    \/ PrepareDraw
    \/ LoadFont
    \/ MeasureText
    \/ ManualPosition
    \/ DrawText
    \/ SaveLogo

SpecBanner == InitBanner /\ [][NextBanner]_vars

----------------------------------------------------------------------------
(* Properties *)

\* v is the floor of d / 2, stated without division.
IsFloorHalf(v, d) == 2 * v <= d /\ d <= 2 * v + 1

Overflowing == text_width > bg.width \/ text_height > bg.height

LastStep == IF steps = <<>> THEN "" ELSE steps[Len(steps)]

Attempted(name) == \E i \in 1..Len(steps) : steps[i] = name

StepOrder ==
    <<"generate", "draw_ctx", "load_font", "measure", "center", "draw_text", "save">>

TextAt(px, py) == [xy |-> <<px, py>>, text |-> text, fill |-> "white"]

\* C1: once the centring computation has run, x is exactly the floor of
\* (canvas_width - text_width) / 2 and y the floor of
\* (canvas_height - text_height) / 2; a 1080x1080 canvas with an 800x120 text
\* block gives (140, 480), and a text block of the canvas's size gives (0, 0).
C1_CenteringIsFloorOfHalfDifference ==
    pc = "draw_text" =>
        /\ IsFloorHalf(x, bg.width - text_width)
        /\ IsFloorHalf(y, bg.height - text_height)
        /\ (bg.width = 1080 /\ bg.height = 1080 /\ text_width = 800 /\ text_height = 120)
              => (x = 140 /\ y = 480)
        /\ (text_width = bg.width /\ text_height = bg.height) => (x = 0 /\ y = 0)

C1_Witness ==
    /\ pc = "draw_text"
    /\ bg.width = 1080 /\ bg.height = 1080
    /\ text_width = 800 /\ text_height = 120
    /\ x = 140 /\ y = 480

\* C2: when the text block is no larger than the canvas in either direction,
\* the centred placement has no negative coordinate and the block lies fully
\* inside the canvas.
C2_CenteredBlockInsideCanvas ==
    (pc = "draw_text" /\ text_width <= bg.width /\ text_height <= bg.height) =>
        /\ x >= 0
        /\ y >= 0
        /\ x + text_width <= bg.width
        /\ y + text_height <= bg.height

C2_Witness ==
    /\ pc = "draw_text"
    /\ text_width < bg.width /\ text_height < bg.height
    /\ x > 0 /\ y > 0
    /\ x + text_width < bg.width
    /\ (bg.width - text_width) % 2 = 1

\* C3: for all inputs, the overflow case included, the right margin minus the
\* left margin is 0 or 1 and the bottom margin minus the top margin is 0 or 1,
\* so the remainder goes to the bottom/right.
C3_RemainderGoesBottomRight ==
    pc = "draw_text" =>
        /\ (bg.width - text_width - x) - x \in {0, 1}
        /\ (bg.height - text_height - y) - y \in {0, 1}
        /\ x <= bg.width - text_width - x
        /\ y <= bg.height - text_height - y

C3_Witness ==
    /\ pc = "draw_text"
    /\ text_width > bg.width
    /\ (bg.width - text_width - x) - x = 1
    /\ (bg.height - text_height - y) - y = 0

\* C4: a text block larger than the canvas gives a negative coordinate and no
\* error: the centring step never ends the run, text_width = canvas_width + 10
\* gives x = -5, and the run goes on to draw at that placement and to save.
C4_OverflowIsNotAnError ==
    /\ LastStep = "center" => (pc = "draw_text" /\ err = "none")
    /\ (pc = "draw_text" /\ text_width > bg.width) => x < 0
    /\ (pc = "draw_text" /\ text_height > bg.height) => y < 0
    /\ (pc = "draw_text" /\ text_width = bg.width + 10) => x = -5
    /\ (pc \in {"save", "done"} /\ Overflowing) => bg.painted = <<TextAt(x, y)>>
    /\ (pc = "done" /\ Overflowing) => (err = "none" /\ writes = 1 /\ file.exists)

C4_Witness ==
    /\ pc = "done"
    /\ text_width = bg.width + 10
    /\ x = -5
    /\ bg.painted = <<TextAt(-5, y)>>
    /\ file.exists /\ writes = 1
    /\ err = "none"

\* C5: with a manual position supplied, the text is drawn at exactly that
\* position whatever the canvas size and the text metrics, the centred
\* position playing no part, and a position outside the canvas is accepted
\* without error.
C5_ManualPositionIsUsedAsGiven ==
    /\ LastStep = "position" =>
          (pc = "draw_text" /\ err = "none" /\ <<x, y>> = config.manualPosition)
    /\ pc \in {"save", "done"} =>
          bg.painted = <<TextAt(config.manualPosition[1], config.manualPosition[2])>>
    /\ pc = "done" => (err = "none" /\ writes = 1)

C5_Witness ==
    /\ pc = "done"
    /\ bg.width = 1600 /\ bg.height = 240
    /\ config.manualPosition = <<620, 70>>
    /\ bg.painted = <<TextAt(620, 70)>>
    /\ <<620, 70>> # <<CenterCoord(bg.width, text_width),
                       CenterCoord(bg.height, text_height)>>

\* C6: a run either completes having written the output file exactly once, or
\* fails having written nothing: after any failure the file at the output
\* path is what it was before the run, and no step is attempted twice.
C6_OneFileOrNothing ==
    /\ err # "none" => (pc = "failed" /\ writes = 0 /\ file = file0)
    /\ pc = "failed" => (err # "none" /\ writes = 0 /\ file = file0)
    /\ pc = "done" => (err = "none" /\ writes = 1 /\ file.exists)
    /\ writes <= 1
    /\ writes = 1 => pc = "done"
    /\ \A i, j \in 1..Len(steps) : steps[i] = steps[j] => i = j

C6_Witness ==
    /\ pc = "failed"
    /\ err = "DrawFailure"
    /\ ~file.exists
    /\ writes = 0

\* C7: when the font path does not resolve to a usable font file, the run
\* ends with FontNotFound at font loading: nothing has been painted on the
\* canvas and nothing has been saved.
C7_FontNotFoundBeforeDrawing ==
    /\ (font_path \notin fonts /\ Attempted("load_font")) =>
          (pc = "failed" /\ err = "FontNotFound")
    /\ err = "FontNotFound" =>
          /\ bg.painted = <<>>
          /\ ~Attempted("draw_text")
          /\ ~Attempted("save")
          /\ writes = 0
          /\ file = file0

C7_Witness ==
    /\ pc = "failed"
    /\ err = "FontNotFound"
    /\ LastStep = "load_font"
    /\ bg.width = 1080

\* C8: the canvas keeps the width and height the generator produced through
\* measuring and drawing, and after a successful save the file records
\* exactly the canvas's dimensions, replacing any file that was there.
C8_SavedDimensionsEqualCanvas ==
    /\ (Attempted("generate") /\ err # "GenerationFailure") =>
          (bg.width = config.width /\ bg.height = config.height)
    /\ pc = "done" =>
          /\ file.exists
          /\ file.width = bg.width
          /\ file.height = bg.height
          /\ file # file0

C8_Witness ==
    /\ pc = "done"
    /\ file0 = OldFile
    /\ file.width = 1080 /\ file.height = 1080
    /\ text_width # bg.width
    /\ Len(bg.painted) = 1

\* C9: the centring computation is a function of its four inputs alone: a
\* call with the inputs of a remembered earlier call gives that call's x and
\* y, and a call leaves the canvas, the file and the error state untouched.
C9_CenteringIsPure ==
    pc = "draw_text" =>
        /\ (/\ memo # <<>>
            /\ memo[1].canvas_width = bg.width
            /\ memo[1].canvas_height = bg.height
            /\ memo[1].text_width = text_width
            /\ memo[1].text_height = text_height)
              => (memo[1].x = x /\ memo[1].y = y)
        /\ bg.painted = <<>>
        /\ file = file0
        /\ writes = 0
        /\ err = "none"

C9_Witness ==
    /\ pc = "draw_text"
    /\ Calls = MaxCalls
    /\ memo # <<>>
    /\ memo[1] = ThisCall
    /\ x # 0

\* C10: the steps run in the order generate, load font, measure, centre,
\* draw, save; a successful run has drawn the text exactly once, at the
\* placement computed from the metrics measured in that run, before its one
\* save, and the save is the last step.
C10_StepsInFixedOrder ==
    /\ Len(steps) <= Len(StepOrder)
    /\ \A i \in 1..Len(steps) : steps[i] = StepOrder[i]
    /\ Len(bg.painted) <= 1
    /\ writes >= 1 => (pc = "done" /\ Len(bg.painted) = 1)
    /\ pc = "done" =>
          /\ steps = StepOrder
          /\ writes = 1
          /\ bg.painted = <<TextAt(x, y)>>
          /\ text_width = bbox[3] - bbox[1]
          /\ text_height = bbox[4] - bbox[2]
          /\ IsFloorHalf(x, bg.width - text_width)
          /\ IsFloorHalf(y, bg.height - text_height)

C10_Witness ==
    /\ pc = "done"
    /\ steps = StepOrder
    /\ bbox[1] > 0
    /\ bg.painted = <<TextAt(x, y)>>
    /\ x > 0

====
